---- MODULE Spec2Model ----
(***************************************************************************)
(* A model of the generic REST client of edu-pilot-frontend:               *)
(*   src/src/services/consts.ts       constants and the MethodType enum    *)
(*   src/src/services/interfaces.ts   IEndpoint, IRequestConfig            *)
(*   src/src/services/api.service.ts  class ApiService                     *)
(* The HTTP transport (axios) and the browser's localStorage are the       *)
(* client's environment; they are modelled by the behaviour the client     *)
(* relies on: a request interceptor that runs before a request is          *)
(* dispatched, a promise that resolves with {status, data} or rejects with *)
(* an error, and a key-value store whose getItem returns a string or null. *)
(***************************************************************************)
EXTENDS Naturals, Sequences, FiniteSets, TLC

VARIABLES
    localStorage,   \* the browser store: key -> string value or null
    endpoint,       \* the IEndpoint the constructor was given (undefined before)
    client,         \* ApiService._client: the transport instance (null before)
    calls           \* the public operations called so far, in call order

vars == <<localStorage, endpoint, client, calls>>

----------------------------------------------------------------------------
(* JavaScript values.  Every value is a record with a `kind`; the operators *)
(* below are the conversions the code applies to them.                      *)

Undefined == [kind |-> "undefined"]
Null == [kind |-> "null"]
Str(s) == [kind |-> "string", val |-> s]
Bool(b) == [kind |-> "boolean", val |-> b]
Num(n) == [kind |-> "number", val |-> n]
Obj(r) == [kind |-> "object", ref |-> r]

\* `{}`: the object literal with no properties
EmptyObject == Obj("{}")

\* ToBoolean, as `||`, `&&` and `if (...)` apply it
Truthy(v) ==
    CASE v.kind = "undefined" -> FALSE
      [] v.kind = "null"      -> FALSE
      [] v.kind = "string"    -> v.val # ""
      [] v.kind = "boolean"   -> v.val
      [] v.kind = "number"    -> v.val # 0
      [] OTHER                -> TRUE

\* a || b
Or(a, b) == IF Truthy(a) THEN a ELSE b

\* The string conversion a template literal `${v}` applies
TemplateString(v) ==
    CASE v.kind = "string"    -> v.val
      [] v.kind = "undefined" -> "undefined"
      [] v.kind = "null"      -> "null"
      [] v.kind = "boolean"   -> IF v.val THEN "true" ELSE "false"
      [] v.kind = "number"    -> ToString(v.val)
      [] OTHER                -> "[object Object]"

----------------------------------------------------------------------------
(* consts.ts *)

MethodType ==
    [GET |-> "GET", POST |-> "POST", PUT |-> "PUT", PATCH |-> "PARCH",
     DELETE |-> "DELETE"]

BASE_URL == "http://localhost:8000"
BASE_PROTOCOL == "https"
BASE_TIMEOUT == 15000
TOKEN_KEY_NAME == "edu_pilot_sid"

----------------------------------------------------------------------------
(* interfaces.ts *)

\* IEndpoint: an object whose optional fields are undefined when absent
IEndpoint(address, entity, protocol, timeout) ==
    [kind |-> "object", address |-> address, entity |-> entity,
     protocol |-> protocol, timeout |-> timeout]

\* IRequestConfig
IRequestConfig(method, path, params) ==
    [method |-> method, path |-> path, params |-> params]

----------------------------------------------------------------------------
(* ApiService: construction *)

\* _getAddress
_getAddress(ep) ==
    LET url == Or(ep.address, Str(BASE_URL))
        protocol == Or(ep.protocol, Str(BASE_PROTOCOL))
    IN  TemplateString(protocol) \o "://" \o TemplateString(url) \o "/"
            \o TemplateString(ep) \o "/"

\* axios.create({baseURL, timeout, headers}); _setupInterceptors registers the
\* request interceptor on the instance
NewClient(ep) ==
    [kind |-> "object",
     baseURL |-> _getAddress(ep),
     timeout |-> Or(ep.timeout, Num(BASE_TIMEOUT)),
     headers |-> [ContentType |-> Str("application/json"), Authorization |-> Undefined],
     requestInterceptors |-> 1]

\* new ApiService(ep)
constructor(ep) ==
    /\ client = Null
    /\ endpoint' = ep
    /\ client' = NewClient(ep)
    /\ UNCHANGED <<localStorage, calls>>

----------------------------------------------------------------------------
(* localStorage, written by code outside the client *)

\* localStorage.getItem(key): the stored string, or null
getItem(key) == localStorage[key]

\* localStorage.setItem(TOKEN_KEY_NAME, t): store or replace the token
setItem(t) ==
    /\ localStorage' = [localStorage EXCEPT ![TOKEN_KEY_NAME] = Str(t)]
    /\ localStorage[TOKEN_KEY_NAME] # Str(t)
    /\ UNCHANGED <<endpoint, client, calls>>

\* localStorage.removeItem(TOKEN_KEY_NAME): clear the token
removeItem ==
    /\ localStorage[TOKEN_KEY_NAME] # Null
    /\ localStorage' = [localStorage EXCEPT ![TOKEN_KEY_NAME] = Null]
    /\ UNCHANGED <<endpoint, client, calls>>

----------------------------------------------------------------------------
(* ApiService: the public operations.  Each builds an IRequestConfig and   *)
(* hands it to _sendRequest, which calls this._client.request(...) and     *)
(* suspends.  The transport merges the instance defaults into the request, *)
(* runs the request interceptor, dispatches, and settles the promise.      *)

\* RequestArgument without the url: the path never reaches the transport
RequestArgumentNoUrl(config) == [method |-> config.method]

\* _sendRequest, up to its await: the argument of this._client.request
RequestArgument(config) ==
    [url |-> Or(config.path, Str("")), method |-> config.method]

\* A property of the request argument, undefined when it was not passed
Passed(arg, field) == IF field \in DOMAIN arg THEN arg[field] ELSE Undefined

\* this._client.request(arg): the instance defaults merged with the argument;
\* every request gets its own copy of the default headers
MergeConfig(arg) ==
    [baseURL |-> client.baseURL,
     timeout |-> client.timeout,
     headers |-> client.headers,
     url |-> Passed(arg, "url"),
     method |-> Passed(arg, "method"),
     params |-> Passed(arg, "params"),
     data |-> Passed(arg, "data")]

\* A settled or pending promise
Pending == [state |-> "pending"]
Fulfilled(v) == [state |-> "fulfilled", value |-> v]
Rejected(e) == [state |-> "rejected", reason |-> e]

\* A call of a public operation: its name, its arguments, the IRequestConfig it
\* built, the request the transport holds for it, how many requests have gone
\* to the network for it, the transport's settlement and the promise the
\* caller holds
NewCall(op, args, config) ==
    [op |-> op, args |-> args, config |-> config,
     request |-> MergeConfig(RequestArgument(config)),
     pc |-> "intercept",
     dispatched |-> 0,
     transport |-> Pending,
     result |-> Pending]

Invoke(op, args, config) ==
    /\ client # Null
    /\ calls' = Append(calls, NewCall(op, args, config))
    /\ UNCHANGED <<localStorage, endpoint, client>>

\* get(uuid)
get(uuid) ==
    Invoke("get", <<uuid>>, IRequestConfig(MethodType.GET, uuid, Undefined))

\* the object literal {filter, navigation, sorting}
ListParams(filter, navigation, sorting) ==
    [kind |-> "object", filter |-> filter, navigation |-> navigation,
     sorting |-> sorting]

\* list(filter, navigation, sorting)
list(filter, navigation, sorting) ==
    Invoke("list", <<filter, navigation, sorting>>,
           IRequestConfig(MethodType.GET, Undefined,
                          ListParams(filter, navigation, sorting)))

\* create(data)
create(data) ==
    Invoke("create", <<data>>, IRequestConfig(MethodType.PUT, Undefined, data))

\* update(uuid, data)
update(uuid, data) ==
    Invoke("update", <<uuid, data>>, IRequestConfig(MethodType.PATCH, uuid, data))

\* delete(uuid)
delete(uuid) ==
    Invoke("delete", <<uuid>>, IRequestConfig(MethodType.DELETE, uuid, Undefined))

\* call(method, path, data)
call(method, path, data) ==
    Invoke("call", <<Str(method), path, data>>, IRequestConfig(method, path, data))

----------------------------------------------------------------------------
(* The request interceptor *)

\* The value of the Authorization header for a token
Bearer(token) == Str("Bearer " \o TemplateString(token))

\* AttachToken without the `if (token)` test: the header is always set
AttachTokenAlways(config, token) ==
    [config EXCEPT !.headers.Authorization = Bearer(token)]

\* The fulfilled handler registered by _setupInterceptors, given the config
\* and the token it read
AttachToken(config, token) ==
    IF Truthy(token)
    THEN [config EXCEPT !.headers.Authorization = Bearer(token)]
    ELSE config

\* The interceptor runs for call c: it reads the token from localStorage at
\* that moment, and the transport dispatches the config it returns
RequestInterceptor(c) ==
    /\ c \in 1..Len(calls)
    /\ calls[c].pc = "intercept"
    /\ client.requestInterceptors = 1
    /\ calls' = [calls EXCEPT
                   ![c].request = AttachToken(@, getItem(TOKEN_KEY_NAME)),
                   ![c].dispatched = @ + 1,
                   ![c].pc = "sent"]
    /\ UNCHANGED <<localStorage, endpoint, client>>

----------------------------------------------------------------------------
(* The transport settles, and _sendRequest resumes after its await *)

\* ValidateStatus as if the constructor had passed validateStatus: () => true
ValidateStatusAny(status) == TRUE

\* The transport's status validation; axios.create is given no validateStatus,
\* so the transport's default decides: 2xx resolves, anything else rejects
ValidateStatus(status) == status >= 200 /\ status < 300

\* The error the transport rejects with
TransportError(code, status) == [kind |-> "error", code |-> code, status |-> status]

\* The response the transport resolves with
Response(status, data) == [status |-> status, data |-> data]

\* SendRequestResult without the `&& response.data` test
SendRequestResultStatusOnly(response) ==
    IF response.status = 200 THEN response.data ELSE EmptyObject

\* _sendRequest after a resolved await: the value it returns
SendRequestResult(response) ==
    IF response.status = 200 /\ Truthy(response.data)
    THEN response.data
    ELSE EmptyObject

\* SendRequestFailure as if a catch block fell through to `return {}`
SendRequestFailureSwallowed(error) == Fulfilled(EmptyObject)

\* _sendRequest after a rejected await: nothing catches the error, so the
\* promise of _sendRequest, and of the public operation awaiting it, rejects
\* with it
SendRequestFailure(error) == Rejected(error)

\* The promise of the public operation once the transport has settled
Settle(transport) ==
    IF transport.state = "fulfilled"
    THEN Fulfilled(SendRequestResult(transport.value))
    ELSE SendRequestFailure(transport.reason)

\* What the transport makes of a response with this status and body
TransportOutcome(status, body) ==
    IF ValidateStatus(status)
    THEN Fulfilled(Response(status, body))
    ELSE Rejected(TransportError("ERR_BAD_REQUEST", status))

Finish(c, transport) ==
    /\ c \in 1..Len(calls)
    /\ calls[c].pc = "sent"
    /\ calls' = [calls EXCEPT
                   ![c].transport = transport,
                   ![c].result = Settle(transport),
                   ![c].pc = "done"]
    /\ UNCHANGED <<localStorage, endpoint, client>>

\* The server answers call c with a status and a parsed body
Respond(c, status, body) == Finish(c, TransportOutcome(status, body))

\* The network call of c fails without a response: no connection, or the
\* timeout expired
Fail(c, code) == Finish(c, Rejected(TransportError(code, 0)))

----------------------------------------------------------------------------
(* Bounds and inputs *)

\* How many operations are called in a behaviour of Spec
MaxCalls == 1
\* How many operations are called, and can be in flight at once, in a
\* behaviour of SpecAuth
MaxAuthCalls == 2

Uuids == {Str(""), Str("123"), Str("7f3a")}
Payloads == {Obj("data-1"), Obj("data-2")}
Filters == {Undefined, Obj("filter")}
Navigations == {Obj("navigation")}
Sortings == {Undefined, Obj("sorting")}
CallMethods == {MethodType.POST, MethodType.PATCH}
CallPaths == {Undefined, Str("custom-action")}
Statuses == {200, 201, 404}
Bodies == {Str(""), Bool(FALSE), Bool(TRUE), Str("id-1"), Obj("body")}
FailureCodes == {"ERR_NETWORK", "ECONNABORTED"}
Tokens == {"tok-A"}

\* The inputs of SpecAuth: every stored value a token slot can hold, one input
\* per operation, one answer
AuthTokens == {"", "tok-A", "tok-B"}
AuthUuids == {Str("123")}
AuthPayloads == {Obj("data-1")}

\* The inputs of SpecAddress: endpoint descriptors with each optional field
\* absent, empty and given
Addresses == {Undefined, Str(""), Str("api.edu-pilot.test")}
Protocols == {Undefined, Str(""), Str("http")}
Entities == {Str("users"), Str("courses"), Str("lessons")}
Timeouts == {Undefined, Num(0), Num(5000), Num(30000)}
Endpoints ==
    {IEndpoint(a, e, p, t) : a \in Addresses, e \in Entities, p \in Protocols,
                             t \in Timeouts}

\* new ApiService({entity: "users"}), the example of the class documentation
DefaultEndpoint == IEndpoint(Undefined, Str("users"), Undefined, Undefined)

----------------------------------------------------------------------------
(* Specifications *)

EmptyStorage == [k \in {TOKEN_KEY_NAME} |-> Null]

\* A constructed client, no token stored, nothing called
Init ==
    /\ localStorage = EmptyStorage
    /\ endpoint = DefaultEndpoint
    /\ client = NewClient(DefaultEndpoint)
    /\ calls = <<>>

Next ==
    \/ \E t \in Tokens : setItem(t)
    \/ removeItem
    \/ Len(calls) < MaxCalls /\ \E uuid \in Uuids : get(uuid)
    \/ Len(calls) < MaxCalls /\
          \E f \in Filters, n \in Navigations, s \in Sortings : list(f, n, s)
    \/ Len(calls) < MaxCalls /\ \E data \in Payloads : create(data)
    \/ Len(calls) < MaxCalls /\ \E uuid \in Uuids, data \in Payloads : update(uuid, data)
    \/ Len(calls) < MaxCalls /\ \E uuid \in Uuids : delete(uuid)
    \/ Len(calls) < MaxCalls /\
          \E m \in CallMethods, path \in CallPaths, data \in Payloads :
              call(m, path, data)
    \/ \E c \in 1..Len(calls) : RequestInterceptor(c)
    \/ \E c \in 1..Len(calls), status \in Statuses, body \in Bodies :
          Respond(c, status, body)
    \/ \E c \in 1..Len(calls), code \in FailureCodes : Fail(c, code)

Spec == Init /\ [][Next]_vars

\* Token writes interleaved with several operations in flight at once
NextAuth ==
    \/ \E t \in AuthTokens : setItem(t)
    \/ removeItem
    \/ Len(calls) < MaxAuthCalls /\ \E uuid \in AuthUuids : get(uuid)
    \/ Len(calls) < MaxAuthCalls /\ list(Undefined, Undefined, Undefined)
    \/ Len(calls) < MaxAuthCalls /\ \E data \in AuthPayloads : create(data)
    \/ Len(calls) < MaxAuthCalls /\
          \E uuid \in AuthUuids, data \in AuthPayloads : update(uuid, data)
    \/ Len(calls) < MaxAuthCalls /\ \E uuid \in AuthUuids : delete(uuid)
    \/ Len(calls) < MaxAuthCalls /\
          \E data \in AuthPayloads : call(MethodType.POST, Undefined, data)
    \/ \E c \in 1..Len(calls) : RequestInterceptor(c)
    \/ \E c \in 1..Len(calls) : Respond(c, 200, Obj("body"))

SpecAuth == Init /\ [][NextAuth]_vars

\* Construction from every endpoint descriptor
InitAddress ==
    /\ localStorage = EmptyStorage
    /\ endpoint = Undefined
    /\ client = Null
    /\ calls = <<>>

NextAddress == \E ep \in Endpoints : constructor(ep)

SpecAddress == InitAddress /\ [][NextAddress]_vars

----------------------------------------------------------------------------
(* Claims *)

CallIds == 1..Len(calls)
IsOp(c, op) == calls[c].op = op
\* the request of call c has gone to the network
Dispatched(c) == calls[c].pc \in {"sent", "done"}
Done(c) == calls[c].pc = "done"
\* the transport resolved call c with a response of this status
Answered(c, status) ==
    /\ Done(c)
    /\ calls[c].transport.state = "fulfilled"
    /\ calls[c].transport.value.status = status
\* the transport rejected call c
TransportFailed(c) == Done(c) /\ calls[c].transport.state = "rejected"
Resolved(c) == Done(c) /\ calls[c].result.state = "fulfilled"

\* A stored value that is a token: a non-empty string
HoldsToken(v) == v.kind = "string" /\ v.val # ""
\* The Authorization header a request sent while the store holds v must carry
ExpectedAuthorization(v) ==
    IF HoldsToken(v) THEN Str("Bearer " \o v.val) ELSE Undefined

\* C1: whenever a request is sent, it carries Authorization: Bearer <t> if the
\* store holds the token t at that moment and no Authorization header if it
\* holds none, whatever tokens were stored before and however many calls are
\* in flight; a request that has been sent keeps the header it was sent with.
C1_AuthorizationFollowsStorage ==
    [][\A c \in CallIds :
         /\ (calls[c].pc = "intercept" /\ calls'[c].pc = "sent") =>
               calls'[c].request.headers.Authorization =
                   ExpectedAuthorization(localStorage[TOKEN_KEY_NAME])
         /\ Dispatched(c) => calls'[c].request = calls[c].request]_vars

\* Two calls in flight at once, the first sent under tok-A, the second sent
\* after the token was cleared, and the token rotated to tok-B since
C1_Witness ==
    /\ Len(calls) = 2
    /\ calls[1].pc = "sent" /\ calls[2].pc = "sent"
    /\ calls[1].request.headers.Authorization = Str("Bearer tok-A")
    /\ calls[2].request.headers.Authorization = Undefined
    /\ localStorage[TOKEN_KEY_NAME] = Str("tok-B")

\* an optional field of a descriptor is given when it is not undefined
Given(v) == v.kind # "undefined"
\* {protocol}://{host}/{entity}/
ExpectedAddress(ep) ==
    (IF Given(ep.protocol) THEN ep.protocol.val ELSE BASE_PROTOCOL) \o "://"
        \o (IF Given(ep.address) THEN ep.address.val ELSE BASE_URL) \o "/"
        \o ep.entity.val \o "/"

\* C2: the base address of a constructed client is {protocol}://{host}/{entity}/
\* with the descriptor's protocol and address when given and the defaults
\* otherwise.
C2_BaseAddress == client # Null => client.baseURL = ExpectedAddress(endpoint)

\* C3: list(filter, nav, sort) issues exactly one request, a GET whose
\* parameters are {filter, navigation: nav, sorting: sort}.
C3_ListRequest ==
    \A c \in CallIds :
        IsOp(c, "list") /\ Dispatched(c) =>
            /\ calls[c].dispatched = 1
            /\ calls[c].request.method = "GET"
            /\ calls[c].request.params =
                   ListParams(calls[c].args[1], calls[c].args[2], calls[c].args[3])

\* C4: create(data) issues exactly one request, a PUT whose parameters are
\* data, and every value it resolves with is a string.
C4_CreateRequest ==
    \A c \in CallIds :
        IsOp(c, "create") =>
            /\ Dispatched(c) =>
                  /\ calls[c].dispatched = 1
                  /\ calls[c].request.method = "PUT"
                  /\ calls[c].request.params = calls[c].args[1]
            /\ Resolved(c) => calls[c].result.value.kind = "string"

\* C5: update(id, data) issues exactly one request, whose HTTP method is PATCH,
\* whose path is id and whose parameters are data, and returns the parsed body.
C5_UpdateRequest ==
    \A c \in CallIds :
        IsOp(c, "update") =>
            /\ Dispatched(c) =>
                  /\ calls[c].dispatched = 1
                  /\ calls[c].request.method = "PATCH"
                  /\ calls[c].request.url = calls[c].args[1]
                  /\ calls[c].request.params = calls[c].args[2]
            /\ Answered(c, 200) /\ Truthy(calls[c].transport.value.data) =>
                  calls[c].result = Fulfilled(calls[c].transport.value.data)

\* C6: delete(id) issues exactly one request, a DELETE whose path is id, and
\* every value it resolves with is a boolean, also for a 200 response whose
\* body is false or empty.
C6_DeleteRequest ==
    \A c \in CallIds :
        IsOp(c, "delete") =>
            /\ Dispatched(c) =>
                  /\ calls[c].dispatched = 1
                  /\ calls[c].request.method = "DELETE"
                  /\ calls[c].request.url = calls[c].args[1]
            /\ Resolved(c) => calls[c].result.value.kind = "boolean"

\* the request of get(id): exactly one, a GET whose path is id
GetRequest(c) ==
    Dispatched(c) =>
        /\ calls[c].dispatched = 1
        /\ calls[c].request.method = "GET"
        /\ calls[c].request.url = calls[c].args[1]

\* C7, as stated: get(id) issues exactly one GET whose path is id, and for
\* every body of a 200 response the value returned is that body.
C7_GetReturnsEveryBody ==
    \A c \in CallIds :
        IsOp(c, "get") =>
            /\ GetRequest(c)
            /\ Answered(c, 200) =>
                  calls[c].result = Fulfilled(calls[c].transport.value.data)

\* C7, amended: get(id) issues exactly one GET whose path is id; for a 200
\* response the value returned is the parsed body itself when the body is
\* truthy, and an empty object when the body is empty, null, false or 0.
C7_GetReturnsBody ==
    \A c \in CallIds :
        IsOp(c, "get") =>
            /\ GetRequest(c)
            /\ Answered(c, 200) =>
                  calls[c].result =
                      Fulfilled(IF Truthy(calls[c].transport.value.data)
                                THEN calls[c].transport.value.data
                                ELSE EmptyObject)

\* get("7f3a") went out as GET 7f3a and returned the body of its 200 response
C7_Witness ==
    \E c \in CallIds :
        /\ IsOp(c, "get") /\ Answered(c, 200)
        /\ calls[c].request.url = Str("7f3a")
        /\ calls[c].transport.value.data = Obj("body")
        /\ calls[c].result = Fulfilled(Obj("body"))

\* the server answered call c with a status the transport rejects
RejectedStatus(c, status) ==
    /\ TransportFailed(c)
    /\ calls[c].transport.reason.code = "ERR_BAD_REQUEST"
    /\ calls[c].transport.reason.status = status

\* C8, as stated: a response with status 404 makes the call resolve with an
\* empty object.
C8_NotFoundResolvesEmpty ==
    \A c \in CallIds :
        RejectedStatus(c, 404) => calls[c].result = Fulfilled(EmptyObject)

\* C8, amended: a response with status 404 is rejected by the transport, whose
\* status validation the client leaves at its default, and the call fails with
\* the transport's error; a response whose status is not 200 and which the
\* transport accepts (another 2xx) makes the call resolve with an empty object.
C8_NotFoundFails ==
    \A c \in CallIds :
        /\ Done(c) => ~Answered(c, 404)
        /\ RejectedStatus(c, 404) => calls[c].result = Rejected(calls[c].transport.reason)
        /\ (Done(c) /\ calls[c].transport.state = "fulfilled"
                /\ calls[c].transport.value.status # 200) =>
              calls[c].result = Fulfilled(EmptyObject)

\* update(...) was answered 404 and its promise rejected
C8_Witness ==
    \E c \in CallIds :
        /\ IsOp(c, "update")
        /\ RejectedStatus(c, 404)
        /\ calls[c].result.state = "rejected"

\* C9: a transport-level failure of the network call of any operation reaches
\* the caller as a rejection carrying the same error; one request went to the
\* network for the call and no more, and no call has more than one.
C9_FailurePropagates ==
    \A c \in CallIds :
        /\ calls[c].dispatched <= 1
        /\ TransportFailed(c) =>
              /\ calls[c].result = Rejected(calls[c].transport.reason)
              /\ calls[c].dispatched = 1

\* delete(...) timed out and its promise rejected with the timeout error
C9_Witness ==
    \E c \in CallIds :
        /\ IsOp(c, "delete")
        /\ TransportFailed(c)
        /\ calls[c].transport.reason.code = "ECONNABORTED"
        /\ calls[c].result = Rejected(TransportError("ECONNABORTED", 0))

====
